---- MODULE Spec2Model ----
(***************************************************************************)
(* Model of the hyprland-go request client: prepareRequests, doRequest,   *)
(* IPCClient.Request, validateResponse, unmarshalResponse and the public  *)
(* request-issuing methods (Dispatch, Kill, Reload, Splash, ...).         *)
(*                                                                         *)
(* A byte string is a sequence of one-character strings.  A Go []byte is  *)
(* a slice into a backing array; the arrays that bytes.Buffer allocates   *)
(* in prepareRequests live in a per-call heap, so that a slice handed out *)
(* by buffer.Bytes() keeps pointing at storage the buffer writes again.   *)
(***************************************************************************)
EXTENDS Integers, Sequences, FiniteSets, TLC

\* ------------------------------------------------------------------------
\* Program constants
\* ------------------------------------------------------------------------
BUF_SIZE == 8192

MAX_COMMANDS == 30

\* bytes.Buffer allocates this capacity for a first small write.
smallBufferSize == 64

\* ------------------------------------------------------------------------
\* Bounds of the model
\* ------------------------------------------------------------------------
\* Largest number of requests one parameter list is split into.
MaxChunks == 3

\* Largest number of full-buffer reads the peer delivers on one connection.
MaxFullReads == 3

\* ------------------------------------------------------------------------
\* Byte strings
\* ------------------------------------------------------------------------
\* Content of array cells that were allocated and never written.
Zero == "NUL"

Max(a, b) == IF a >= b THEN a ELSE b

Min(a, b) == IF a <= b THEN a ELSE b

Drop(s, n) == SubSeq(s, n + 1, Len(s))

RECURSIVE Flatten(_)
Flatten(ss) == IF ss = <<>> THEN <<>> ELSE Head(ss) \o Flatten(Tail(ss))

\* Number of positions of s that hold the byte b.
CountByte(s, b) == Cardinality({i \in 1..Len(s) : s[i] = b})

SPACE == <<" ">>

SEMI == <<";">>

BATCH == <<"[", "[", "B", "A", "T", "C", "H", "]", "]">>

JSON_MARK == <<"j", "/">>

OK == <<"o", "k">>

\* ------------------------------------------------------------------------
\* bytes.Buffer as prepareRequests uses it (never read from, so off = 0).
\* A buffer is [heap, arr, len]: heap is the sequence of backing arrays
\* allocated so far, arr the index of the buffer's array (0: nil buffer),
\* len the length of the buffer's contents.  cap is the array's length.
\* ------------------------------------------------------------------------
NewBuffer == [heap |-> <<>>, arr |-> 0, len |-> 0]

BufCap(b) == IF b.arr = 0 THEN 0 ELSE Len(b.heap[b.arr])

\* buffer.Bytes(): a slice of the buffer's own array, not a copy.
BufBytes(b) == [arr |-> b.arr, len |-> b.len]

\* buffer.Reset(): the contents are dropped, the array is kept.
BufReset(b) == [b EXCEPT !.len = 0]

\* The bytes a slice denotes in a heap.
SliceBytes(heap, sl) == IF sl.arr = 0 THEN <<>> ELSE SubSeq(heap[sl.arr], 1, sl.len)

\* buffer.WriteString(s): in place when s fits in the capacity, otherwise
\* into a new array (64 bytes for a first small write, else at least twice
\* the old capacity) that receives a copy of the contents.
BufWriteString(b, s) ==
    LET n == Len(s)
        c == BufCap(b)
        m == b.len
    IN  IF n = 0 THEN b
        ELSE IF m + n <= c
        THEN [b EXCEPT !.heap[b.arr] = [i \in 1..c |->
                           IF i > m /\ i <= m + n THEN s[i - m] ELSE @[i]],
                       !.len = m + n]
        ELSE LET newcap == IF b.arr = 0 /\ n <= smallBufferSize
                           THEN smallBufferSize
                           ELSE Max(m + n, 2 * c)
                 old == SliceBytes(b.heap, BufBytes(b))
                 new == [i \in 1..newcap |->
                           IF i <= m THEN old[i]
                           ELSE IF i <= m + n THEN s[i - m]
                           ELSE Zero]
             IN  [heap |-> Append(b.heap, new),
                  arr |-> Len(b.heap) + 1,
                  len |-> m + n]

\* ------------------------------------------------------------------------
\* prepareRequests(command, params) for a non-empty command.  The result is
\* [heap, requests]: requests is the sequence of slices appended to the
\* plan, heap the arrays they point into when the function returns.
\* ------------------------------------------------------------------------
\* Lines 187-192: the sub-commands j..end-1 (0-based j) written to the buffer.
RECURSIVE WriteCommands(_, _, _, _, _)
WriteCommands(b, command, params, j, end) ==
    IF j >= end THEN b
    ELSE LET b1 == BufWriteString(b, command)
             b2 == BufWriteString(b1, SPACE)
             b3 == BufWriteString(b2, params[j + 1])
             b4 == BufWriteString(b3, SEMI)
         IN  IF b1.len + b2.len + b3.len + b4.len >= 0
             THEN WriteCommands(b4, command, params, j + 1, end)
             ELSE b4

\* Lines 179-195: the chunk loop, from 0-based index i on.
RECURSIVE BatchLoop(_, _, _, _, _)
BatchLoop(b, requests, command, params, i) ==
    IF i >= Len(params) THEN [heap |-> b.heap, requests |-> requests]
    ELSE LET end == IF i + MAX_COMMANDS > Len(params)
                    THEN Len(params)
                    ELSE i + MAX_COMMANDS
             b1 == BufWriteString(BufReset(b), BATCH)
             b2 == WriteCommands(b1, command, params, i, end)
         IN  IF b1.len + b2.len >= 0
             THEN BatchLoop(b2, Append(requests, BufBytes(b2)),
                            command, params, i + MAX_COMMANDS)
             ELSE [heap |-> b2.heap, requests |-> requests]

\* A fresh []byte holding s, as []byte(string) makes.
Alloc(s) == [heap |-> <<s>>, requests |-> <<[arr |-> 1, len |-> Len(s)]>>]

\* prepareRequests without the split: every parameter goes into one request.
prepareRequests_NoSplit(command, params) ==
    IF Len(params) = 0 THEN Alloc(command)
    ELSE IF Len(params) = 1 THEN Alloc(command \o SPACE \o params[1])
    ELSE LET b == WriteCommands(BufWriteString(NewBuffer, BATCH),
                                command, params, 0, Len(params))
         IN  [heap |-> b.heap, requests |-> <<BufBytes(b)>>]

prepareRequests(command, params) ==
    IF Len(params) = 0 THEN Alloc(command)
    ELSE IF Len(params) = 1 THEN Alloc(command \o SPACE \o params[1])
    ELSE BatchLoop(NewBuffer, <<>>, command, params, 0)

\* ------------------------------------------------------------------------
\* Results and errors
\* ------------------------------------------------------------------------
NoResult == [kind |-> "none", err |-> "", got |-> 0, want |-> 0, value |-> <<>>]

\* A call that returned without error; value is the bytes it returned.
Success(value) == [kind |-> "ok", err |-> "", got |-> 0, want |-> 0, value |-> value]

\* A call that returned the error err (and no bytes).
Failure(err) == [kind |-> "error", err |-> err, got |-> 0, want |-> 0, value |-> <<>>]

\* The error of lines 219-226, which reports the two counts.
CountFailure(got, want) ==
    [kind |-> "error", err |-> "got ok, want", got |-> got, want |-> want, value |-> <<>>]

\* A call that did not return: the goroutine panicked.
Panic(msg) == [kind |-> "panic", err |-> msg, got |-> 0, want |-> 0, value |-> <<>>]

\* strings.Count(s, sub), the number of non-overlapping occurrences of sub
\* in s, for a sub that cannot overlap itself (as "ok" cannot): every
\* position where sub occurs starts one of them.
Count(s, sub) ==
    Cardinality({i \in 1..(Len(s) - Len(sub) + 1) :
                    \A j \in 1..Len(sub) : s[i + j - 1] = sub[j]})

\* validateResponse without the substitution of 1 for an empty params.
validateResponse_WantNotRaised(validate, params, response) ==
    IF ~validate THEN Success(<<>>)
    ELSE IF Len(response) = 0 THEN Failure("empty response")
    ELSE LET got == Count(response, OK)
             want == Len(params)
         IN  IF got < want THEN CountFailure(got, want) ELSE Success(<<>>)

\* validateResponse without the early return on an unset Validate.
validateResponse_FlagIgnored(validate, params, response) ==
    IF Len(response) = 0 THEN Failure("empty response")
    ELSE LET got == Count(response, OK)
             want == IF Len(params) = 0 THEN 1 ELSE Len(params)
         IN  IF got < want THEN CountFailure(got, want) ELSE Success(<<>>)

validateResponse(validate, params, response) ==
    IF ~validate THEN Success(<<>>)
    ELSE IF Len(response) = 0 THEN Failure("empty response")
    ELSE LET got == Count(response, OK)
             want == IF Len(params) = 0 THEN 1 ELSE Len(params)
         IN  IF got < want THEN CountFailure(got, want) ELSE Success(<<>>)

\* unmarshalResponse: jsonOK is whether json.Unmarshal accepts the bytes.
unmarshalResponse(response, jsonOK) ==
    IF Len(response) = 0 THEN Failure("empty response")
    ELSE IF ~jsonOK THEN Failure("error during unmarshal")
    ELSE Success(<<>>)

\* ------------------------------------------------------------------------
\* The public methods and the command each passes to doRequest
\* ------------------------------------------------------------------------
\* Methods that end in validateResponse.
ValidatedOps == {"Dispatch", "Kill", "Reload"}

\* Methods that end in unmarshalResponse.
DecodedOps == {"ActiveWindow", "ActiveWorkspace", "Clients", "CursorPos",
               "GetOption", "Version"}

\* Methods that take no parameter.
NoParamOps == {"Kill", "Reload", "Splash", "ActiveWindow", "ActiveWorkspace",
               "Clients", "CursorPos", "Version"}

CommandOf(o) ==
    CASE o = "Dispatch"        -> <<"d", "i", "s", "p", "a", "t", "c", "h">>
      [] o = "Kill"            -> <<"k", "i", "l", "l">>
      [] o = "Reload"          -> <<"r", "e", "l", "o", "a", "d">>
      [] o = "Splash"          -> <<"s", "p", "l", "a", "s", "h">>
      [] o = "ActiveWindow"    -> <<"a", "c", "t", "i", "v", "e", "w", "i", "n", "d", "o", "w">>
      [] o = "ActiveWorkspace" -> <<"a", "c", "t", "i", "v", "e", "w", "o", "r", "k", "s", "p", "a", "c", "e">>
      [] o = "Clients"         -> <<"c", "l", "i", "e", "n", "t", "s">>
      [] o = "CursorPos"       -> <<"c", "u", "r", "s", "o", "r", "p", "o", "s">>
      [] o = "GetOption"       -> <<"g", "e", "t", "o", "p", "t", "i", "o", "n">>
      [] o = "Version"         -> <<"v", "e", "r", "s", "i", "o", "n">>

\* What a method returns once doRequest has returned response without error
\* (the last lines of Dispatch, Kill, Reload, Splash and the decoding methods).
FinishCall(o, validate, params, response, jsonOK) ==
    CASE o = "Dispatch"         -> validateResponse(validate, params, response)
      [] o \in {"Kill", "Reload"} -> validateResponse(validate, <<>>, response)
      [] o = "Splash"           -> Success(response)
      [] o \in DecodedOps       -> unmarshalResponse(response, jsonOK)
      [] OTHER                  -> Success(response)

\* ------------------------------------------------------------------------
\* Inputs
\* ------------------------------------------------------------------------
DigitChars == <<"0", "1", "2", "3", "4", "5", "6", "7", "8", "9">>

\* The decimal digits of i, three wide.
Digits(i) == << DigitChars[((i \div 100) % 10) + 1],
                DigitChars[((i \div 10) % 10) + 1],
                DigitChars[(i % 10) + 1] >>

\* "id": every parameter differs; "same": every parameter is "x";
\* "shrink": the parameters of the first chunk are longer than the later ones.
Styles == {"id", "same", "shrink"}

Param(i, style) ==
    CASE style = "id"     -> Digits(i)
      [] style = "same"   -> <<"x">>
      [] style = "shrink" -> IF i <= MAX_COMMANDS
                             THEN Digits(i) \o <<"l", "o", "n", "g">>
                             ELSE Digits(i)

ParamCounts ==
    {0, 1, 2} \cup {k * MAX_COMMANDS + d : k \in 1..(MaxChunks - 1), d \in {0, 1}}

ParamList(n, style) == [i \in 1..n |-> Param(i, style)]

ExampleParams == << <<"e", "x", "e", "c", " ", "k", "i", "t", "t", "y">>,
                    <<"w", "o", "r", "k", "s", "p", "a", "c", "e", " ", "2">> >>

ParamLists ==
    {ParamList(n, st) : n \in ParamCounts, st \in Styles} \cup {ExampleParams}

OptionNames == { <<"g", "a", "p", "s">> }

\* Requests handed to the low-level Request method directly.
RawRequests == { <<>>, <<"s", "p", "l", "a", "s", "h">> }

\* Commands handed to doRequest directly (it is package-internal).
InternalCommands == { <<>>, <<"m", "o", "n", "i", "t", "o", "r", "s">> }

InternalParamLists == {ParamList(n, "id") : n \in {0, 1, 2}}

\* What the peer answers: the patterns its bytes repeat.
Patterns == {OK, <<"x">>}

\* The bytes of a read of n bytes repeating pat.
ReadBytes(n, pat) == [i \in 1..n |-> pat[((i - 1) % Len(pat)) + 1]]

\* ------------------------------------------------------------------------
\* State
\* ------------------------------------------------------------------------
VARIABLES
    Validate,   \* IPCClient.Validate
    pc,         \* per caller: where its call stands
    op,         \* per caller: the method it called
    command,    \* per caller: doRequest's command
    params,     \* per caller: doRequest's params
    heap,       \* per caller: the arrays the slices of requests point into
    requests,   \* per caller: doRequest's requests, a sequence of slices
    idx,        \* per caller: the 1-based position of doRequest's range loop
    response,   \* per caller: doRequest's response
    resp,       \* per caller: Request's resp buffer
    conns,      \* per caller: the connections its call dialed, in order
    openConns,  \* number of request connections that are open
    result,     \* per caller: what its call returned
    client,     \* "none" before NewClient returned a client, then "ready"
    eventConn,  \* IPCClient.eventConn: the event connection held, 0 for none
    eventDials, \* dials of the event socket made by the latest NewClient call
    newArgs,    \* the socket paths of the latest NewClient call
    newResult,  \* what the latest NewClient call returned
    evWritten,  \* the bytes the peer writes on the event connection
    evPos,      \* how many of them the reader has read
    evBuf,      \* the reader's buffered partial line
    evOut,      \* the Event Records delivered to the caller, in order
    evState     \* "open", or how the event sequence ended: "eof", "error"

\* What the constructor sets.
ctorVars == <<client, eventConn, eventDials, newArgs, newResult>>

\* What the Event Stream Reader works on.
eventVars == <<evWritten, evPos, evBuf, evOut, evState>>

vars == <<Validate, pc, op, command, params, heap, requests, idx, response,
          resp, conns, openConns, result, ctorVars, eventVars>>

Callers == DOMAIN pc

\* A connection to the request socket: what was written on it and what the
\* peer's reads delivered (kind "data" with n bytes repeating pat, "eof",
\* "err"), in order.
\* ret is what Request returned to its caller when it was done with the
\* connection.
NewConn == [state |-> "open", sent |-> <<>>, reads |-> <<>>, ret |-> NoResult]

FailedConn == [state |-> "failed", sent |-> <<>>, reads |-> <<>>, ret |-> NoResult]

\* A close that only the successful return path reaches.
DeferredClose_OnSuccessOnly(c, r) ==
    IF r.kind = "ok" THEN [c EXCEPT !.state = "closed", !.ret = r]
    ELSE [c EXCEPT !.ret = r]

\* Line 320: the deferred conn.Close() runs when Request returns r.
DeferredClose(c, r) == [c EXCEPT !.state = "closed", !.ret = r]

\* A loop that goes on after a short read and stops at an empty one only.
EndOfMessage_OnlyWhenEmpty(n) == n = 0

\* A loop that takes a read filling the buffer as the end of the message too.
EndOfMessage_FullBufferToo(n) == n <= BUF_SIZE

\* Line 345: a read of fewer bytes than the buffer holds ends the message.
EndOfMessage(n) == n < BUF_SIZE

DataRead(n, pat) == [kind |-> "data", n |-> n, pat |-> pat]

EofRead == [kind |-> "eof", n |-> 0, pat |-> <<>>]

ErrRead == [kind |-> "err", n |-> 0, pat |-> <<>>]

\* A plan kept in one place for all callers: the request is taken from the
\* plan of the first caller that is inside a call.
CurrentRequest_SharedPlan(p) ==
    LET q == CHOOSE c \in Callers :
                 /\ pc[c] # "idle"
                 /\ \A d \in Callers : pc[d] # "idle" => c <= d
    IN  SliceBytes(heap[q], requests[q][Min(idx[p], Len(requests[q]))])

\* The bytes of the request the range loop is at, read through its slice.
CurrentRequest(p) == SliceBytes(heap[p], requests[p][idx[p]])


\* The connection Request holds.
CurrentConn(p) == conns[p][Len(conns[p])]

\* Number of sub-commands of the request the loop is at.
SubCommands(p) ==
    IF op[p] # "Request" /\ Len(params[p]) >= 2
    THEN Min(MAX_COMMANDS, Len(params[p]) - (idx[p] - 1) * MAX_COMMANDS)
    ELSE 1

FullReads(c) == Cardinality({i \in 1..Len(c.reads) : c.reads[i].n = BUF_SIZE})

\* The reads the peer may deliver next: one "ok" per sub-command, one byte
\* short of that, a byte of something else, or (to a call of a single
\* request, and MaxFullReads times at most) a full buffer.
PeerReads(p) ==
    {DataRead(2 * SubCommands(p), OK),
     DataRead(2 * SubCommands(p) - 1, OK),
     DataRead(1, <<"x">>)}
    \cup (IF Len(requests[p]) = 1 /\ FullReads(CurrentConn(p)) < MaxFullReads
          THEN {DataRead(BUF_SIZE, pat) : pat \in Patterns}
          ELSE {})

\* No caller is inside a call.
IdleCallers(callers) ==
    /\ pc = [p \in callers |-> "idle"]
    /\ op = [p \in callers |-> ""]
    /\ command = [p \in callers |-> <<>>]
    /\ params = [p \in callers |-> <<>>]
    /\ heap = [p \in callers |-> <<>>]
    /\ requests = [p \in callers |-> <<>>]
    /\ idx = [p \in callers |-> 0]
    /\ response = [p \in callers |-> <<>>]
    /\ resp = [p \in callers |-> <<>>]
    /\ conns = [p \in callers |-> <<>>]
    /\ openConns = 0
    /\ result = [p \in callers |-> NoResult]

\* The socket paths of a running compositor.
RequestSocket == <<"s", "1">>

EventSocket == <<"s", "2">>

\* Lines 298-305: the client NewClient returns.
Constructed ==
    /\ Validate = TRUE
    /\ client = "ready"
    /\ eventConn = 1
    /\ eventDials = 1
    /\ newArgs = <<RequestSocket, EventSocket>>
    /\ newResult = Success(<<>>)

\* Nothing was read yet of the bytes the peer writes on the event connection.
EventStream(stream) ==
    /\ evWritten = stream
    /\ evPos = 0
    /\ evBuf = <<>>
    /\ evOut = <<>>
    /\ evState = "open"

InitFor(callers) ==
    /\ Constructed
    /\ IdleCallers(callers)
    /\ EventStream(<<>>)

Init == InitFor({1})

\* ------------------------------------------------------------------------
\* Actions
\* ------------------------------------------------------------------------
\* The user sets the public field Validate between calls.
SetValidate(b) ==
    /\ client = "ready"
    /\ \A p \in Callers : pc[p] = "idle"
    /\ Validate # b
    /\ Validate' = b
    /\ UNCHANGED <<pc, op, command, params, heap, requests, idx, response,
                   resp, conns, openConns, result, ctorVars, eventVars>>

\* Lines 243-245: doRequest(cmd, ps) called by method o, up to the first
\* iteration of its loop.  prepareRequests panics on an empty command.
doRequest(p, o, cmd, ps) ==
    /\ client = "ready"
    /\ pc[p] = "idle"
    /\ op' = [op EXCEPT ![p] = o]
    /\ command' = [command EXCEPT ![p] = cmd]
    /\ params' = [params EXCEPT ![p] = ps]
    /\ IF cmd = <<>>
       THEN /\ pc' = [pc EXCEPT ![p] = "panicked"]
            /\ result' = [result EXCEPT ![p] = Panic("empty command")]
            /\ UNCHANGED <<heap, requests, idx>>
       ELSE LET plan == prepareRequests(cmd, ps)
            IN  /\ pc' = [pc EXCEPT ![p] = "request"]
                /\ heap' = [heap EXCEPT ![p] = plan.heap]
                /\ requests' = [requests EXCEPT ![p] = plan.requests]
                /\ idx' = [idx EXCEPT ![p] = 1]
                /\ UNCHANGED result
    /\ UNCHANGED <<ctorVars, eventVars, Validate, response, resp, conns, openConns>>

Dispatch(p, ps) == doRequest(p, "Dispatch", CommandOf("Dispatch"), ps)

GetOption(p, name) == doRequest(p, "GetOption", CommandOf("GetOption"), <<name>>)

\* Kill, Reload, Splash, ActiveWindow, ActiveWorkspace, Clients, CursorPos,
\* Version.
CallNoParam(p, o) == doRequest(p, o, CommandOf(o), <<>>)

\* doRequest called with a command of the caller's choice.
CallDoRequest(p, cmd, ps) == doRequest(p, "doRequest", cmd, ps)

\* Request called directly with the bytes r.
CallRequest(p, r) ==
    /\ client = "ready"
    /\ pc[p] = "idle"
    /\ op' = [op EXCEPT ![p] = "Request"]
    /\ pc' = [pc EXCEPT ![p] = "request"]
    /\ heap' = [heap EXCEPT ![p] = Alloc(r).heap]
    /\ requests' = [requests EXCEPT ![p] = Alloc(r).requests]
    /\ idx' = [idx EXCEPT ![p] = 1]
    /\ UNCHANGED <<ctorVars, eventVars, Validate, command, params, response, resp, conns,
                   openConns, result>>

\* Request returns r to its caller, having left the connections of the call
\* as cs; opened says whether it holds a connection, which the deferred
\* conn.Close() of line 320 then closes.  Lines 246-252 of doRequest and the
\* end of the calling method follow.
RequestReturns(p, r, cs, opened, jsonOK) ==
    /\ LET after == IF opened THEN [cs EXCEPT ![Len(cs)] = DeferredClose(@, r)] ELSE cs
       IN  /\ conns' = [conns EXCEPT ![p] = after]
           /\ openConns' = IF opened /\ after[Len(after)].state = "closed"
                            THEN openConns - 1
                            ELSE openConns
    /\ resp' = [resp EXCEPT ![p] = <<>>]
    /\ IF op[p] = "Request"
       THEN /\ pc' = [pc EXCEPT ![p] = "done"]
            /\ result' = [result EXCEPT ![p] = r]
            /\ UNCHANGED <<idx, response>>
       ELSE IF r.kind = "error"
       THEN /\ pc' = [pc EXCEPT ![p] = "done"]
            /\ result' = [result EXCEPT ![p] = Failure(r.err)]
            /\ response' = [response EXCEPT ![p] = <<>>]
            /\ UNCHANGED idx
       ELSE LET acc == response[p] \o r.value
            IN  /\ response' = [response EXCEPT ![p] = acc]
                /\ IF idx[p] < Len(requests[p])
                   THEN /\ idx' = [idx EXCEPT ![p] = @ + 1]
                        /\ pc' = [pc EXCEPT ![p] = "request"]
                        /\ UNCHANGED result
                   ELSE /\ pc' = [pc EXCEPT ![p] = "done"]
                        /\ result' = [result EXCEPT ![p] =
                               FinishCall(op[p], Validate, params[p], acc, jsonOK)]
                        /\ UNCHANGED idx
    /\ UNCHANGED <<ctorVars, eventVars, Validate, op, command, params, heap, requests>>

\* Whether json.Unmarshal accepts the response is the decoder's affair.
JsonOutcomes(p) == IF op[p] \in DecodedOps THEN BOOLEAN ELSE {TRUE}

\* An empty request that is dialed for all the same.
RequestEmpty_DialsAnyway(p) ==
    /\ pc[p] = "request"
    /\ Len(CurrentRequest(p)) = 0
    /\ pc' = [pc EXCEPT ![p] = "write"]
    /\ conns' = [conns EXCEPT ![p] = Append(@, NewConn)]
    /\ openConns' = openConns + 1
    /\ UNCHANGED <<ctorVars, eventVars, Validate, op, command, params, heap,
                   requests, idx, response, resp, result>>

\* Lines 314-316: an empty request is refused before anything is dialed.
RequestEmpty(p) ==
    /\ pc[p] = "request"
    /\ Len(CurrentRequest(p)) = 0
    /\ \E jsonOK \in JsonOutcomes(p) :
           RequestReturns(p, Failure("empty request"), conns[p], FALSE, jsonOK)

\* A dial that takes the connection of the previous request again when there
\* is one.
DialOK_ReusesConnection(p) ==
    /\ pc[p] = "request"
    /\ Len(CurrentRequest(p)) > 0
    /\ pc' = [pc EXCEPT ![p] = "write"]
    /\ conns' = [conns EXCEPT ![p] =
                    IF @ = <<>> THEN Append(@, NewConn)
                    ELSE [@ EXCEPT ![Len(@)].state = "open"]]
    /\ openConns' = openConns + 1
    /\ UNCHANGED <<ctorVars, eventVars, Validate, op, command, params, heap, requests, idx,
                   response, resp, result>>

\* Lines 319-323: the dial succeeds.
DialOK(p) ==
    /\ pc[p] = "request"
    /\ Len(CurrentRequest(p)) > 0
    /\ pc' = [pc EXCEPT ![p] = "write"]
    /\ conns' = [conns EXCEPT ![p] = Append(@, NewConn)]
    /\ openConns' = openConns + 1
    /\ UNCHANGED <<ctorVars, eventVars, Validate, op, command, params, heap, requests, idx,
                   response, resp, result>>

\* Lines 319-320: the dial fails, conn is a nil *net.UnixConn, and the defer
\* statement evaluates conn.Close on it before err is looked at.
DialFail(p) ==
    /\ pc[p] = "request"
    /\ Len(CurrentRequest(p)) > 0
    /\ pc' = [pc EXCEPT ![p] = "panicked"]
    /\ conns' = [conns EXCEPT ![p] = Append(@, FailedConn)]
    /\ result' = [result EXCEPT ![p] = Panic("nil pointer dereference")]
    /\ UNCHANGED <<ctorVars, eventVars, Validate, op, command, params, heap, requests, idx,
                   response, resp, openConns>>

\* A prefix copied over the first bytes of the request instead of put in
\* front of them.
Payload_OverwritesPrefix(request) == JSON_MARK \o Drop(request, Len(JSON_MARK))

\* Line 326: append([]byte{'j', '/'}, request...) makes a new byte string,
\* the marker followed by the request; the request's own bytes stay.
Payload(request) == JSON_MARK \o request

\* Lines 326-330: the payload is written.
WriteOK(p) ==
    /\ pc[p] = "write"
    /\ pc' = [pc EXCEPT ![p] = "read"]
    /\ conns' = [conns EXCEPT ![p][Len(conns[p])].sent =
                    Append(@, Payload(CurrentRequest(p)))]
    /\ resp' = [resp EXCEPT ![p] = <<>>]
    /\ UNCHANGED <<ctorVars, eventVars, Validate, op, command, params, heap, requests, idx,
                   response, openConns, result>>

\* Lines 326-330: the write fails.
WriteFail(p) ==
    /\ pc[p] = "write"
    /\ \E jsonOK \in JsonOutcomes(p) :
           RequestReturns(p, Failure("error while writing to socket"),
                          conns[p], TRUE, jsonOK)

\* Lines 336-347: a read delivers rd.n bytes; a full buffer reads on.
ReadData(p, rd) ==
    /\ pc[p] = "read"
    /\ LET cs == [conns[p] EXCEPT ![Len(conns[p])].reads = Append(@, rd)]
           got == resp[p] \o ReadBytes(rd.n, rd.pat)
       IN  IF EndOfMessage(rd.n)
           THEN \E jsonOK \in JsonOutcomes(p) :
                    RequestReturns(p, Success(got), cs, TRUE, jsonOK)
           ELSE /\ resp' = [resp EXCEPT ![p] = got]
                /\ conns' = [conns EXCEPT ![p] = cs]
                /\ UNCHANGED <<ctorVars, eventVars, Validate, pc, op, command, params, heap, requests,
                               idx, response, openConns, result>>

\* Lines 337-340: the read reports end-of-stream.
ReadEOF(p) ==
    /\ pc[p] = "read"
    /\ LET cs == [conns[p] EXCEPT ![Len(conns[p])].reads = Append(@, EofRead)]
       IN  \E jsonOK \in JsonOutcomes(p) :
               RequestReturns(p, Success(resp[p]), cs, TRUE, jsonOK)

\* A deadline on the read: Request gives up without the peer having
\* delivered anything.
ReadError_Timeout(p) ==
    /\ pc[p] = "read"
    /\ \E jsonOK \in JsonOutcomes(p) :
           RequestReturns(p, Failure("timeout"), conns[p], TRUE, jsonOK)

\* A read failure that hands back what was read before it.
ReadError_ReturnsPartial(p) ==
    /\ pc[p] = "read"
    /\ LET cs == [conns[p] EXCEPT ![Len(conns[p])].reads = Append(@, ErrRead)]
       IN  \E jsonOK \in JsonOutcomes(p) :
               RequestReturns(p, Success(resp[p]), cs, TRUE, jsonOK)

\* Lines 337-341: the read fails with another error.
ReadError(p) ==
    /\ pc[p] = "read"
    /\ LET cs == [conns[p] EXCEPT ![Len(conns[p])].reads = Append(@, ErrRead)]
       IN  \E jsonOK \in JsonOutcomes(p) :
               RequestReturns(p, Failure("read error"), cs, TRUE, jsonOK)

\* The caller takes the result and is free to call again.
Return(p) ==
    /\ pc[p] = "done"
    /\ pc' = [pc EXCEPT ![p] = "idle"]
    /\ op' = [op EXCEPT ![p] = ""]
    /\ command' = [command EXCEPT ![p] = <<>>]
    /\ params' = [params EXCEPT ![p] = <<>>]
    /\ heap' = [heap EXCEPT ![p] = <<>>]
    /\ requests' = [requests EXCEPT ![p] = <<>>]
    /\ idx' = [idx EXCEPT ![p] = 0]
    /\ response' = [response EXCEPT ![p] = <<>>]
    /\ resp' = [resp EXCEPT ![p] = <<>>]
    /\ conns' = [conns EXCEPT ![p] = <<>>]
    /\ result' = [result EXCEPT ![p] = NoResult]
    /\ UNCHANGED <<ctorVars, eventVars, Validate, openConns>>

Next ==
    \/ \E b \in BOOLEAN : SetValidate(b)
    \/ \E p \in Callers, ps \in ParamLists : Dispatch(p, ps)
    \/ \E p \in Callers, name \in OptionNames : GetOption(p, name)
    \/ \E p \in Callers, o \in NoParamOps : CallNoParam(p, o)
    \/ \E p \in Callers, cmd \in InternalCommands, ps \in InternalParamLists :
           CallDoRequest(p, cmd, ps)
    \/ \E p \in Callers, r \in RawRequests : CallRequest(p, r)
    \/ \E p \in Callers : RequestEmpty(p)
    \/ \E p \in Callers : DialOK(p)
    \/ \E p \in Callers : DialFail(p)
    \/ \E p \in Callers : WriteOK(p)
    \/ \E p \in Callers : WriteFail(p)
    \/ \E p \in Callers : pc[p] = "read" /\ \E rd \in PeerReads(p) : ReadData(p, rd)
    \/ \E p \in Callers : ReadEOF(p)
    \/ \E p \in Callers : ReadError(p)
    \/ \E p \in Callers : Return(p)

Spec == Init /\ [][Next]_vars

\* Two callers on one client, their steps interleaved in every way.  Each
\* reads short answers only; Validate is left as the constructor set it.
ConcCallers == {1, 2}

ConcParamLists == {ParamList(2, "id"), ParamList(MAX_COMMANDS + 1, "id")}

NextConc ==
    \/ \E p \in Callers, ps \in ConcParamLists : Dispatch(p, ps)
    \/ \E p \in Callers : CallNoParam(p, "Splash")
    \/ \E p \in Callers, r \in RawRequests : CallRequest(p, r)
    \/ \E p \in Callers : RequestEmpty(p)
    \/ \E p \in Callers : DialOK(p)
    \/ \E p \in Callers : DialFail(p)
    \/ \E p \in Callers : WriteOK(p)
    \/ \E p \in Callers : WriteFail(p)
    \/ \E p \in Callers :
           pc[p] = "read" /\ \E rd \in PeerReads(p) : rd.n < BUF_SIZE /\ ReadData(p, rd)
    \/ \E p \in Callers : ReadEOF(p)
    \/ \E p \in Callers : ReadError(p)
    \/ \E p \in Callers : Return(p)

SpecConc == InitFor(ConcCallers) /\ [][NextConc]_vars

\* One caller, with the steps that are the program's own taken sooner or
\* later: the check of the request, the dial and the write end one way or
\* the other.  When the peer lets a read come back is the peer's affair.
LiveCaller == CHOOSE p \in Callers : TRUE

OwnStep(p) ==
    \/ RequestEmpty(p)
    \/ DialOK(p)
    \/ DialFail(p)
    \/ WriteOK(p)
    \/ WriteFail(p)

\* The peer ends the message: a short read, end-of-stream or a read error.
PeerEnds(p) ==
    \/ pc[p] = "read" /\ \E rd \in PeerReads(p) : rd.n < BUF_SIZE /\ ReadData(p, rd)
    \/ ReadEOF(p)
    \/ ReadError(p)

NextLive ==
    \/ \E p \in Callers : Dispatch(p, ParamList(MAX_COMMANDS + 1, "id"))
    \/ \E p \in Callers, r \in RawRequests : CallRequest(p, r)
    \/ \E p \in Callers : RequestEmpty(p)
    \/ \E p \in Callers : DialOK(p)
    \/ \E p \in Callers : DialFail(p)
    \/ \E p \in Callers : WriteOK(p)
    \/ \E p \in Callers : WriteFail(p)
    \/ \E p \in Callers : pc[p] = "read" /\ \E rd \in PeerReads(p) : ReadData(p, rd)
    \/ \E p \in Callers : ReadEOF(p)
    \/ \E p \in Callers : ReadError(p)
    \/ \E p \in Callers : Return(p)

SpecLive == Init /\ [][NextLive]_vars /\ WF_vars(OwnStep(LiveCaller))

\* ------------------------------------------------------------------------
\* The constructor
\* ------------------------------------------------------------------------
\* Everything the request calls work on.
callVars == <<pc, op, command, params, heap, requests, idx, response, resp,
              conns, openConns, result>>

\* No client was constructed yet.
Unconstructed ==
    /\ Validate = FALSE
    /\ client = "none"
    /\ eventConn = 0
    /\ eventDials = 0
    /\ newArgs = <<>>
    /\ newResult = NoResult

\* Socket paths a caller passes.
RequestSockets == {<<>>, RequestSocket}

EventSockets == {<<>>, EventSocket}

\* A constructor that dials first and looks at its arguments afterwards.
NewClient_DialsBeforeCheck(requestSocket, eventSocket, dialOK) ==
    /\ client = "none"
    /\ newArgs' = <<requestSocket, eventSocket>>
    /\ eventDials' = 1
    /\ IF requestSocket = <<>> \/ eventSocket = <<>>
       THEN /\ newResult' = Failure("empty request or event socket")
            /\ UNCHANGED <<Validate, client, eventConn>>
       ELSE IF ~dialOK
       THEN /\ newResult' = Failure("error while connecting to socket")
            /\ UNCHANGED <<Validate, client, eventConn>>
       ELSE /\ newResult' = Success(<<>>)
            /\ Validate' = TRUE
            /\ client' = "ready"
            /\ eventConn' = 1
    /\ UNCHANGED <<callVars, eventVars>>

\* Lines 287-305: NewClient(requestSocket, eventSocket); dialOK says whether
\* net.Dial of the event socket succeeds.
NewClient(requestSocket, eventSocket, dialOK) ==
    /\ client = "none"
    /\ newArgs' = <<requestSocket, eventSocket>>
    /\ IF requestSocket = <<>> \/ eventSocket = <<>>
       THEN /\ newResult' = Failure("empty request or event socket")
            /\ eventDials' = 0
            /\ UNCHANGED <<Validate, client, eventConn>>
       ELSE IF ~dialOK
       THEN /\ newResult' = Failure("error while connecting to socket")
            /\ eventDials' = 1
            /\ UNCHANGED <<Validate, client, eventConn>>
       ELSE /\ newResult' = Success(<<>>)
            /\ eventDials' = 1
            /\ Validate' = TRUE
            /\ client' = "ready"
            /\ eventConn' = 1
    /\ UNCHANGED <<callVars, eventVars>>

\* ------------------------------------------------------------------------
\* The Event Stream Reader
\* ------------------------------------------------------------------------
NEWLINE == "\n"

\* The separator of type and data.
SEP == <<">", ">">>

\* type ReceivedData struct { Type; Data }
ReceivedData(type, data) == [Type |-> type, Data |-> data]

\* Position of the first separator in line, 0 if there is none.
FirstSep(line) ==
    LET at == {i \in 1..(Len(line) - 1) : SubSeq(line, i, i + 1) = SEP}
    IN  IF at = {} THEN 0 ELSE CHOOSE i \in at : \A j \in at : i <= j

\* One complete line becomes one record, split on the first separator.  A
\* line without separator is given as a type without data.
ParseEvent(line) ==
    LET i == FirstSep(line)
    IN  IF i = 0 THEN ReceivedData(line, <<>>)
        ELSE ReceivedData(SubSeq(line, 1, i - 1), Drop(line, i + 1))

\* The complete lines of data, without their terminators, and what follows
\* the last terminator.
RECURSIVE SplitLines(_)
SplitLines(data) ==
    LET at == {i \in 1..Len(data) : data[i] = NEWLINE}
    IN  IF at = {} THEN [lines |-> <<>>, rest |-> data]
        ELSE LET i == CHOOSE k \in at : \A j \in at : k <= j
                 tail == SplitLines(Drop(data, i))
             IN  [lines |-> <<SubSeq(data, 1, i - 1)>> \o tail.lines,
                  rest |-> tail.rest]

\* A reader that throws the unfinished line away.
Carry_Dropped(rest) == <<>>

\* What a read cycle keeps for the next one: the unfinished last line.
Carry(rest) == rest

\* One read cycle: n bytes arrive, the lines completed by them are
\* delivered in order, the unfinished rest is kept.
EventRead(n) ==
    /\ client = "ready"
    /\ evState = "open"
    /\ n \in 1..(Len(evWritten) - evPos)
    /\ LET data == evBuf \o SubSeq(evWritten, evPos + 1, evPos + n)
           sp == SplitLines(data)
       IN  /\ evOut' = evOut \o [k \in 1..Len(sp.lines) |-> ParseEvent(sp.lines[k])]
           /\ evBuf' = Carry(sp.rest)
    /\ evPos' = evPos + n
    /\ UNCHANGED <<Validate, callVars, ctorVars, evWritten, evState>>

\* The peer closed the connection after its last byte: the sequence ends.
EventEOF ==
    /\ client = "ready"
    /\ evState = "open"
    /\ evPos = Len(evWritten)
    /\ evState' = "eof"
    /\ UNCHANGED <<Validate, callVars, ctorVars, evWritten, evPos, evBuf, evOut>>

\* A read fails: the sequence ends.
EventError ==
    /\ client = "ready"
    /\ evState = "open"
    /\ evState' = "error"
    /\ UNCHANGED <<Validate, callVars, ctorVars, evWritten, evPos, evBuf, evOut>>

\* What the peer writes in the runs of the reader.
ExampleStream ==
    <<"w", "o", "r", "k", "s", "p", "a", "c", "e", ">", ">", "3", "\n", "f", "o", "c", "u", "s", "e", "d", "m", "o", "n", ">", ">", "e", "D", "P", "-", "1", ",", "3", "\n">>

EventStreams ==
    {ExampleStream,
     <<"a", ">", ">", "b", ">", ">", "c", "\n", "x", ">", ">", "\n", ">", ">", ">", "y", "\n">>,
     <<"o", "p", "e", "n", "w", "i", "n", "d", "o", "w", ">", ">", "1", ",", "2", "\n", "c", "l", "o", "s", "e">>}

InitEvents ==
    /\ Constructed
    /\ IdleCallers({1})
    /\ \E stream \in EventStreams : EventStream(stream)

NextEvents ==
    \/ \E n \in 1..Len(evWritten) : EventRead(n)
    \/ EventEOF
    \/ EventError

SpecEvents == InitEvents /\ [][NextEvents]_vars

\* A client from its construction on: the constructor, then request calls
\* with short answers and the reader on a short stream.
ShortStream == <<"a", ">", ">", "b", "\n", "c">>

InitNew ==
    /\ Unconstructed
    /\ IdleCallers({1})
    /\ EventStream(ShortStream)

NextNew ==
    \/ \E rs \in RequestSockets, es \in EventSockets, dialOK \in BOOLEAN :
           NewClient(rs, es, dialOK)
    \/ \E b \in BOOLEAN : SetValidate(b)
    \/ \E p \in Callers : Dispatch(p, ParamList(2, "id"))
    \/ \E p \in Callers, r \in RawRequests : CallRequest(p, r)
    \/ \E p \in Callers : RequestEmpty(p)
    \/ \E p \in Callers : DialOK(p)
    \/ \E p \in Callers : DialFail(p)
    \/ \E p \in Callers : WriteOK(p)
    \/ \E p \in Callers : WriteFail(p)
    \/ \E p \in Callers :
           pc[p] = "read" /\ \E rd \in PeerReads(p) : rd.n < BUF_SIZE /\ ReadData(p, rd)
    \/ \E p \in Callers : ReadEOF(p)
    \/ \E p \in Callers : ReadError(p)
    \/ \E p \in Callers : Return(p)
    \/ \E n \in 1..Len(evWritten) : EventRead(n)
    \/ EventEOF
    \/ EventError

SpecNew == InitNew /\ [][NextNew]_vars

\* ------------------------------------------------------------------------
\* Vocabulary of the properties
\* ------------------------------------------------------------------------
\* The caller is inside a call that went through doRequest.
InDoRequest(p) == op[p] \notin {"", "Request"} /\ pc[p] # "idle"

\* The caller called one of the public request-issuing methods.
PublicCall(p) == op[p] \in ValidatedOps \cup DecodedOps \cup {"Splash"}

\* The i-th contiguous chunk of at most MAX_COMMANDS parameters.
Chunk(ps, i) ==
    SubSeq(ps, (i - 1) * MAX_COMMANDS + 1, Min(i * MAX_COMMANDS, Len(ps)))

NumChunks(n) == (n + MAX_COMMANDS - 1) \div MAX_COMMANDS

\* The batch form of a chunk.
EncodeChunk(cmd, chunk) ==
    BATCH \o Flatten([k \in 1..Len(chunk) |-> cmd \o SPACE \o chunk[k] \o SEMI])

\* The payloads the call wrote to the socket so far, in the order written.
SentPayloads(p) == Flatten([i \in 1..Len(conns[p]) |-> conns[p][i].sent])

\* The bytes the peer's reads delivered on a connection, in order.
ConnBytes(c) ==
    Flatten([j \in 1..Len(c.reads) |-> ReadBytes(c.reads[j].n, c.reads[j].pat)])

\* The bytes delivered on all connections of the call, in order.
Received(p) == Flatten([i \in 1..Len(conns[p]) |-> ConnBytes(conns[p][i])])

\* doRequest sent every request of its plan and each Request succeeded.
DoRequestCompleted(p) ==
    /\ InDoRequest(p)
    /\ pc[p] = "done"
    /\ Len(conns[p]) = Len(requests[p])
    /\ \A i \in 1..Len(conns[p]) : conns[p][i].ret.kind = "ok"

\* Occurrences of "ok": an 'o' directly followed by a 'k'.
OkCount(s) == Cardinality({i \in 1..(Len(s) - 1) : s[i] = "o" /\ s[i + 1] = "k"})

\* k >= 1 reads of exactly BUF_SIZE bytes, then a short read or end-of-stream.
FullThenEnd(reads) ==
    /\ Len(reads) >= 2
    /\ \A j \in 1..(Len(reads) - 1) : reads[j].kind = "data" /\ reads[j].n = BUF_SIZE
    /\ LET last == reads[Len(reads)]
       IN  \/ last.kind = "eof"
           \/ last.kind = "data" /\ last.n < BUF_SIZE

\* ------------------------------------------------------------------------
\* Properties
\* ------------------------------------------------------------------------
\* C1: for a non-empty command and two or more parameters, the i-th request
\* written to the socket encodes exactly the parameters of the i-th chunk of
\* at most MAX_COMMANDS parameters, in order, at the moment it is sent, and a
\* completed doRequest has sent one request per chunk.
C1_SentRequestsAreTheChunks ==
    \A p \in Callers :
        (InDoRequest(p) /\ command[p] # <<>> /\ Len(params[p]) >= 2) =>
            /\ \A i \in 1..Len(SentPayloads(p)) :
                   Drop(SentPayloads(p)[i], Len(JSON_MARK)) =
                       EncodeChunk(command[p], Chunk(params[p], i))
            /\ DoRequestCompleted(p) =>
                   Len(SentPayloads(p)) = NumChunks(Len(params[p]))

\* C2: every request written to the socket holds at most MAX_COMMANDS
\* ';'-terminated sub-commands.
C2_AtMostMaxCommandsPerRequest ==
    \A p \in Callers :
        \A i \in 1..Len(SentPayloads(p)) :
            CountByte(SentPayloads(p)[i], ";") <= MAX_COMMANDS

\* C3: a public request-issuing call whose response has length zero fails
\* with the empty-response error, whatever Validate is.
C3_EmptyResponseAlwaysFails ==
    \A p \in Callers :
        (PublicCall(p) /\ DoRequestCompleted(p) /\ Len(response[p]) = 0) =>
            /\ result[p].kind = "error"
            /\ result[p].err = "empty response"

\* C4: with Validate set and a non-empty response, Dispatch, Kill and Reload
\* return nil exactly when the bytes received on all connections of the call,
\* concatenated, hold at least max(len(params), 1) occurrences of "ok", and
\* otherwise the error that reports the two counts.
C4_ValidateCountsOk ==
    \A p \in Callers :
        (op[p] \in ValidatedOps /\ DoRequestCompleted(p) /\ Validate
            /\ Len(Received(p)) > 0) =>
            LET got == OkCount(Received(p))
                want == Max(Len(params[p]), 1)
            IN  IF got >= want
                THEN result[p].kind = "ok"
                ELSE /\ result[p].kind = "error"
                     /\ result[p].err = "got ok, want"
                     /\ result[p].got = got
                     /\ result[p].want = want

\* C4 witness: a Dispatch split over several requests that passed validation.
C4_Witness ==
    \E p \in Callers :
        /\ op[p] = "Dispatch" /\ DoRequestCompleted(p) /\ Validate
        /\ Len(conns[p]) >= 2
        /\ result[p].kind = "ok"

\* C5: when the reads on a connection were one or more full buffers and then
\* a short read or end-of-stream, Request returned all their bytes in order;
\* and Request never returned right after a read that filled the buffer.
C5_ReassemblesFullReads ==
    \A p \in Callers :
        \A i \in 1..Len(conns[p]) :
            LET c == conns[p][i]
            IN  c.state = "closed" =>
                    /\ FullThenEnd(c.reads) => c.ret = Success(ConnBytes(c))
                    /\ c.reads # <<>> =>
                           ~(c.reads[Len(c.reads)].kind = "data"
                             /\ c.reads[Len(c.reads)].n = BUF_SIZE)

\* C5 witness: three full buffers, then end-of-stream, returned whole.
C5_Witness ==
    \E p \in Callers :
        /\ pc[p] = "done"
        /\ Len(conns[p]) = 1
        /\ LET c == conns[p][1]
           IN  /\ Len(c.reads) = 4
               /\ \A j \in 1..3 : c.reads[j].n = BUF_SIZE
               /\ c.reads[4].kind = "eof"
               /\ Len(c.ret.value) = 3 * BUF_SIZE

\* C6: for a non-empty command the plan has one request for no parameter,
\* one for one parameter and ceil(N / MAX_COMMANDS) for N >= 2 parameters.
C6_NumberOfRequests ==
    \A p \in Callers :
        (InDoRequest(p) /\ command[p] # <<>>) =>
            Len(requests[p]) = IF Len(params[p]) <= 1
                               THEN 1
                               ELSE NumChunks(Len(params[p]))

\* C6 witness: a plan of three requests.
C6_Witness ==
    \E p \in Callers :
        /\ InDoRequest(p)
        /\ Len(params[p]) = 2 * MAX_COMMANDS + 1
        /\ Len(requests[p]) = 3

\* C7: the body of a request of the plan is the command alone for no
\* parameter, command + " " + parameter for one, and for two or more the
\* batch form of the request's chunk.
C7_RequestBodies ==
    \A p \in Callers :
        (InDoRequest(p) /\ command[p] # <<>>) =>
            \A i \in 1..Len(requests[p]) :
                SliceBytes(heap[p], requests[p][i]) =
                    IF Len(params[p]) = 0 THEN command[p]
                    ELSE IF Len(params[p]) = 1
                    THEN command[p] \o SPACE \o params[p][1]
                    ELSE EncodeChunk(command[p], Chunk(params[p], i))

\* C8: preparing requests for an empty command hands an error value back to
\* the caller.
C8_EmptyCommandReturnsError ==
    \A p \in Callers :
        (InDoRequest(p) /\ command[p] = <<>>) =>
            /\ result[p].kind = "error"
            /\ conns[p] = <<>>

\* C9: with Validate unset, validateResponse returns nil for every parameter
\* list and every response.
C9_NoValidationAlwaysNil ==
    \A p \in Callers :
        (op[p] \in ValidatedOps /\ DoRequestCompleted(p) /\ ~Validate) =>
            result[p] = Success(<<>>)

\* C9 witness: an unvalidated Dispatch returned nil on a response with fewer
\* "ok" than parameters.
C9_Witness ==
    \E p \in Callers :
        /\ op[p] = "Dispatch" /\ DoRequestCompleted(p) /\ ~Validate
        /\ OkCount(response[p]) < Len(params[p])
        /\ result[p].kind = "ok"

\* C10: a connection is open only while the Request that dialed it is
\* running; once Request has returned, on any path, it is closed.
C10_ConnectionsClosedOnReturn ==
    /\ openConns = Cardinality({p \in Callers : pc[p] \in {"write", "read"}})
    /\ \A p \in Callers :
           \A i \in 1..Len(conns[p]) :
               conns[p][i].state = "open" =>
                   i = Len(conns[p]) /\ pc[p] \in {"write", "read"}

\* C10 witness: a call whose connections ended by a success and by a write
\* failure, all closed.
C10_Witness ==
    \E p \in Callers :
        /\ pc[p] = "done"
        /\ Len(conns[p]) >= 2
        /\ conns[p][1].ret.kind = "ok"
        /\ conns[p][Len(conns[p])].ret.err = "error while writing to socket"
        /\ \A i \in 1..Len(conns[p]) : conns[p][i].state = "closed"
        /\ openConns = 0

\* Errors with which Request itself fails.
TransportErrors == {"empty request", "error while writing to socket", "read error"}

\* doRequest returned its response without error.
DoRequestSucceeded(p) ==
    /\ InDoRequest(p)
    /\ pc[p] = "done"
    /\ ~(result[p].kind = "error" /\ result[p].err \in TransportErrors)

\* C11: every Request dials a connection of its own and writes one payload
\* on it at most; the connections of a call are dialed one after the other,
\* each closed before the next is dialed, one per request of the plan.
C11_OneConnectionPerRequest ==
    \A p \in Callers :
        /\ \A i \in 1..Len(conns[p]) : Len(conns[p][i].sent) <= 1
        /\ \A i \in 1..(Len(conns[p]) - 1) :
               conns[p][i].state = "closed" /\ Len(conns[p][i].sent) = 1
        /\ Len(conns[p]) = IF pc[p] = "request" THEN idx[p] - 1
                           ELSE IF pc[p] = "done" /\ requests[p][1].len = 0 THEN 0
                           ELSE idx[p]
        /\ DoRequestSucceeded(p) =>
               /\ Len(conns[p]) = Len(requests[p])
               /\ \A i \in 1..Len(conns[p]) :
                      conns[p][i].state = "closed" /\ Len(conns[p][i].sent) = 1

\* C11 witness: a plan of three requests went over three connections.
C11_Witness ==
    \E p \in Callers :
        /\ DoRequestSucceeded(p)
        /\ Len(requests[p]) = 3
        /\ Len(conns[p]) = 3
        /\ \A i \in 1..3 : conns[p][i].state = "closed" /\ Len(conns[p][i].sent) = 1

\* C12: every payload written is "j/" followed by the bytes of the request
\* as Request received them, once per request, and no step of Request
\* changes the bytes of the plan.
C12_PayloadIsMarkerThenRequest ==
    /\ [](\A p \in Callers :
             \A i \in 1..Len(conns[p]) :
                 \A k \in 1..Len(conns[p][i].sent) :
                     conns[p][i].sent[k] =
                         JSON_MARK \o SliceBytes(heap[p], requests[p][i]))
    /\ [][\A p \in Callers :
             pc[p] \in {"request", "write", "read"} =>
                 heap'[p] = heap[p] /\ requests'[p] = requests[p]]_vars

\* C12 witness: both requests of a batch were written, each after one marker.
C12_Witness ==
    \E p \in Callers :
        /\ Len(requests[p]) >= 2
        /\ Len(conns[p]) >= 2
        /\ \A i \in 1..2 :
               /\ Len(conns[p][i].sent) = 1
               /\ SubSeq(conns[p][i].sent[1], 1, 2) = <<"j", "/">>
               /\ Len(conns[p][i].sent[1]) = requests[p][i].len + 2


\* Everything a call keeps for itself.
Local(p) == <<pc[p], op[p], command[p], params[p], heap[p], requests[p],
              idx[p], response[p], resp[p], conns[p], result[p]>>

\* C13: with two callers interleaved in every way, every payload a call
\* wrote is the marker and the request of its own plan at that position, a
\* call that returns successfully returns the bytes received on its own
\* connections, no step of one call changes anything the other call keeps,
\* and a call's plan stays as it was made until the call returns.
C13_CallersDoNotInterfere ==
    /\ [](\A p \in Callers :
             /\ \A i \in 1..Len(conns[p]) :
                    \A k \in 1..Len(conns[p][i].sent) :
                        conns[p][i].sent[k] =
                            Payload(SliceBytes(heap[p], requests[p][i]))
             /\ DoRequestCompleted(p) => response[p] = Received(p)
             /\ op[p] = "Request" /\ pc[p] = "done" /\ result[p].kind = "ok" =>
                    result[p].value = Received(p))
    /\ [][\A p \in Callers :
             /\ \A q \in Callers \ {p} :
                    Local(p)' # Local(p) => Local(q)' = Local(q)
             /\ pc[p] # "idle" /\ pc'[p] # "idle" =>
                    heap'[p] = heap[p] /\ requests'[p] = requests[p]]_vars

\* C13 witness: both callers completed a call whose steps overlapped, with
\* different plans and different bytes received.
C13_Witness ==
    /\ Cardinality(Callers) = 2
    /\ \A p \in Callers : DoRequestCompleted(p) /\ response[p] = Received(p)
    /\ Len(requests[1]) # Len(requests[2])
    /\ Received(1) # Received(2)


\* The attempt on a connection failed: the dial, the write or a read.
AttemptFailed(c) == c.state = "failed" \/ c.ret.kind = "error"

\* C14: when a request of the plan fails at the dial, the write or a read,
\* doRequest returns that error and no bytes, the failed request is the last
\* one attempted, and no request was attempted twice.
C14_FailureReturnsError ==
    \A p \in Callers :
        InDoRequest(p) =>
            \A i \in 1..Len(conns[p]) :
                AttemptFailed(conns[p][i]) =>
                    /\ pc[p] = "done"
                    /\ result[p].kind = "error"
                    /\ result[p].value = <<>>
                    /\ response[p] = <<>>
                    /\ i = Len(conns[p])
                    /\ Len(conns[p]) <= idx[p]
                    /\ \A j \in 1..Len(conns[p]) : Len(conns[p][j].sent) <= 1


\* The bytes of a sequence of records as the peer writes them.
Serialize(events) ==
    Flatten([k \in 1..Len(events) |->
                events[k].Type \o SEP \o events[k].Data \o <<NEWLINE>>])

\* The two records of the example stream.
ExampleRecords ==
    <<ReceivedData(<<"w", "o", "r", "k", "s", "p", "a", "c", "e">>, <<"3">>),
      ReceivedData(<<"f", "o", "c", "u", "s", "e", "d", "m", "o", "n">>, <<"e", "D", "P", "-", "1", ",", "3">>)>>

\* C15: wherever the reads cut the peer's bytes, the records delivered so
\* far followed by the buffered partial line are exactly the bytes read so
\* far, each record is one line split at its first separator, no complete
\* line is held back, records once delivered stay as delivered, and the
\* example stream read to its end gives its two records in order.
C15_EventsInOrderNoLoss ==
    /\ [](/\ Serialize(evOut) \o evBuf = SubSeq(evWritten, 1, evPos)
          /\ \A i \in 1..Len(evBuf) : evBuf[i] # NEWLINE
          /\ \A k \in 1..Len(evOut) :
                 /\ FirstSep(evOut[k].Type \o SEP \o evOut[k].Data) =
                        Len(evOut[k].Type) + 1
                 /\ \A i \in 1..Len(evOut[k].Type) : evOut[k].Type[i] # NEWLINE
                 /\ \A i \in 1..Len(evOut[k].Data) : evOut[k].Data[i] # NEWLINE
          /\ evWritten = ExampleStream /\ evPos = Len(evWritten) =>
                 evOut = ExampleRecords)
    /\ [][Len(evOut') >= Len(evOut) /\ SubSeq(evOut', 1, Len(evOut)) = evOut]_vars

\* C15 witness: a read of the example stream ended in the middle of the
\* second line; the first record is delivered, the partial line is buffered.
C15_Witness ==
    /\ evWritten = ExampleStream
    /\ evOut = <<ExampleRecords[1]>>
    /\ evBuf = <<"f", "o", "c", "u", "s", "e", "d", "m", "o", "n", ">", ">", "e", "D", "P">>
    /\ evState = "open"


\* C16: NewClient with an empty path returns an error, no client, and dials
\* nothing; with two paths it dials the event socket once and returns either
\* the client holding that connection or, the dial failing, an error and no
\* client; it never panics; and once the client exists no step of any
\* operation dials the event socket again or replaces the connection.
C16_NewClientDialsOnce ==
    /\ [](/\ newResult.kind \in {"none", "ok", "error"}
          /\ client = "ready" <=> newResult.kind = "ok"
          /\ client = "ready" <=> eventConn # 0
          /\ newResult.kind # "none" =>
                 IF \E i \in 1..Len(newArgs) : newArgs[i] = <<>>
                 THEN /\ newResult = Failure("empty request or event socket")
                      /\ eventDials = 0
                 ELSE /\ eventDials = 1
                      /\ newResult.kind = "error" =>
                             newResult = Failure("error while connecting to socket"))
    /\ [][client = "ready" =>
             client' = "ready" /\ eventConn' = eventConn /\ eventDials' = eventDials]_vars

\* C16 witness: a constructed client whose event connection is still the one
\* dialed at construction after a request call and a read of events.
C16_Witness ==
    /\ client = "ready"
    /\ eventConn = 1
    /\ eventDials = 1
    /\ evOut # <<>>
    /\ \E p \in Callers : pc[p] = "done" /\ conns[p] # <<>>

\* A read after which Request reads on: a full buffer.
FullRead(rd) == rd.kind = "data" /\ rd.n = BUF_SIZE

\* C17: on every connection each read but the last filled the buffer, so
\* the first short read or end-of-stream is the last read; a connection
\* that was read to its end is never read again; and what Request returns
\* from it is the bytes of its reads, in order, the short read included.
C17_StopsAtFirstShortRead ==
    /\ [](\A p \in Callers :
             \A i \in 1..Len(conns[p]) :
                 LET c == conns[p][i]
                 IN  /\ \A j \in 1..(Len(c.reads) - 1) : FullRead(c.reads[j])
                     /\ c.reads # <<>> /\ ~FullRead(c.reads[Len(c.reads)]) =>
                            c.state = "closed"
                     /\ c.state = "closed" /\ c.ret.kind = "ok" =>
                            /\ c.reads # <<>>
                            /\ c.reads[Len(c.reads)].kind \in {"data", "eof"}
                            /\ c.ret.value = ConnBytes(c)
                            /\ Len(c.ret.value) =
                                   BUF_SIZE * (Len(c.reads) - 1) + c.reads[Len(c.reads)].n)
    /\ [][\A p \in Callers :
             \A i \in 1..Len(conns[p]) :
                 conns[p][i].state = "closed" /\ i <= Len(conns'[p]) =>
                     conns'[p][i] = conns[p][i]]_vars

\* C17 witness: two full buffers and then a read of one byte; Request
\* returned the 2 * BUF_SIZE + 1 bytes and the connection is closed.
C17_Witness ==
    \E p \in Callers :
        /\ op[p] = "Request"
        /\ pc[p] = "done"
        /\ Len(conns[p]) = 1
        /\ Len(conns[p][1].reads) = 3
        /\ conns[p][1].reads[3] = DataRead(1, <<"x">>)
        /\ conns[p][1].state = "closed"
        /\ result[p].kind = "ok"
        /\ Len(result[p].value) = 2 * BUF_SIZE + 1


\* The reads of the connection ended in an error that is not end-of-stream.
EndedInError(c) == c.reads # <<>> /\ c.reads[Len(c.reads)].kind = "err"

\* C19: when the reads of a connection end in an error, Request returns
\* that error and no bytes, whatever was received before; a call through
\* doRequest returns the error and no bytes as well.
C19_ReadErrorDiscardsBytes ==
    \A p \in Callers :
        \A i \in 1..Len(conns[p]) :
            EndedInError(conns[p][i]) =>
                /\ conns[p][i].ret = Failure("read error")
                /\ conns[p][i].ret.value = <<>>
                /\ pc[p] = "done"
                /\ result[p].kind = "error"
                /\ result[p].err = "read error"
                /\ result[p].value = <<>>
                /\ resp[p] = <<>>
                /\ response[p] = <<>>

\* C19 witness: a full buffer was received, the next read failed, and
\* Request returned the error without the bytes.
C19_Witness ==
    \E p \in Callers :
        /\ op[p] = "Request"
        /\ pc[p] = "done"
        /\ Len(conns[p]) = 1
        /\ EndedInError(conns[p][1])
        /\ Len(ConnBytes(conns[p][1])) >= BUF_SIZE
        /\ result[p] = Failure("read error")

\* C20: a Request whose request is empty stops before the dial: it has no
\* connection, wrote nothing, and returns the error "empty request".
C20_EmptyRequestNoDial ==
    \A p \in Callers :
        op[p] = "Request" /\ requests[p][1].len = 0 =>
            /\ conns[p] = <<>>
            /\ SentPayloads(p) = <<>>
            /\ pc[p] \in {"request", "done"}
            /\ pc[p] = "done" => result[p] = Failure("empty request")

\* C20 witness: Request returned from a call with an empty request.
C20_Witness ==
    \E p \in Callers :
        /\ op[p] = "Request"
        /\ requests[p][1].len = 0
        /\ pc[p] = "done"
        /\ result[p] = Failure("empty request")
        /\ conns[p] = <<>>


\* Request holds a connection and has not returned.
OnConnection(p) == pc[p] \in {"write", "read"}

\* C18: if the peer, whenever Request waits in a read, sooner or later ends
\* the message (short read, end-of-stream or read error), a Request that
\* holds a connection returns; and Request leaves its read loop by no other
\* step than a read the peer let come back that did not fill the buffer:
\* there is no timeout.
C18_ReturnsIfPeerEnds ==
    /\ WF_vars(PeerEnds(LiveCaller)) =>
           (OnConnection(LiveCaller) ~> ~OnConnection(LiveCaller))
    /\ [][pc[LiveCaller] = "read" /\ pc'[LiveCaller] # "read" =>
             LET i == Len(conns[LiveCaller])
                 before == conns[LiveCaller][i].reads
                 after == conns'[LiveCaller][i].reads
             IN  /\ Len(after) = Len(before) + 1
                 /\ ~FullRead(after[Len(after)])]_vars

\* C18 witness: Request returned after waiting through full buffers for the
\* read that ended the message.
C18_Witness ==
    /\ op[LiveCaller] = "Request"
    /\ pc[LiveCaller] = "done"
    /\ Len(conns[LiveCaller]) = 1
    /\ Len(conns[LiveCaller][1].reads) = MaxFullReads + 1
    /\ conns[LiveCaller][1].reads[MaxFullReads + 1] = EofRead

====
